---- MODULE Spec2Model ----
(***************************************************************************)
(* Model of imageproc_gpu: the Executor (src/lib.rs) that owns one         *)
(* in-order OpenCL queue and the Feature -> Program registry, and the      *)
(* contrast operations (src/contrast.rs) that allocate device images,      *)
(* build and enqueue one kernel and read the result back.                  *)
(***************************************************************************)
EXTENDS Integers, Sequences, FiniteSets, TLC

(* ------------------------------ bounds -------------------------------- *)
MaxPlatforms == 2
MaxW == 2
MaxCalls == 2
MaxSmallRadius == 2

(* --------------------------- program constants ------------------------ *)
U8Max == 255
Half == 65536
SignHalf == 32768

None == "none"
NoErr == "ok"
NoPlatform == 0
NoDevice == <<0, 0>>
NoImage == [w |-> 0, h |-> 0, ct |-> "none", data |-> <<>>]
NoDevImage == [order |-> "none", dtype |-> "none", flags |-> {}, w |-> 0, h |-> 0, data |-> <<>>]
NoKernel == [name |-> "none", images |-> <<>>, scalars |-> <<>>, gws |-> <<0, 0>>, call |-> 0]
NoArg == [threshold |-> 0, radius |-> <<0, 0>>, lower |-> 0, upper |-> 0]

(* panic messages of the expect()/assert!/panic! sites *)
ErrNoPlatform == "There are no available platforms!"
ErrNoDevice == "There are no devices for this platform!"
ErrContext == "Could not build the context!"
ErrQueue == "Could not create the queue!"
ErrContrastBuild == "Could not build the contrast program!"
ErrGeometricBuild == "Could not build the geometric transformations program!"
ErrFeature == "This feature is not enabled/initialized!"
ErrBgr == "Channel order BRG is not implemented!"
ErrNonExhaustive == "This channel order and channel data type combo is not implemented!"
ErrAlloc == "Could not allocate image on GPU!"
ErrAssert == "assertion failed"
ErrKernelBuild == "kernel could not be loaded!"
ErrEnqueue == "Error while enqueueing the kernel!"
ErrRead == "Error while copying device mem to host!"

(* enum Feature and the cargo features that guard the blocks of new() *)
Feature == {"Contrast", "Geometric_Trans"}

(* image::ColorType, the values of T::COLOR_TYPE matched in alloc_img *)
ColorType ==
    {"L8", "La8", "Rgb8", "Rgba8", "L16", "La16", "Rgb16", "Rgba16",
     "Bgr8", "Bgra8", "__NonExhaustive"}

VARIABLES
    pc,          \* position of the calling thread
    platforms,   \* the Vec returned by ocl::Platform::list(), one device count per platform
    cfg,         \* cargo features of the build: subset of Feature
    ctor,        \* which constructor built the Executor
    device,      \* device of the queue: <<platform index, device index>>
    programs,    \* keys of Executor.programs
    op,          \* operation in progress
    img,         \* the caller's host image
    img0,        \* the caller's host image when the call started
    arg,         \* scalar arguments of the call
    dev,         \* device images of the call in progress, by local name
    kernel,      \* the kernel built by the call in progress
    queue,       \* commands pending on the in-order queue
    output,      \* host image the call writes its result to
    err,         \* panic message, NoErr when none
    allocs,      \* device images allocated by the call in progress
    calls,       \* number of operation calls started
    log          \* events of the queue and of the caller, in order

vars == <<pc, platforms, cfg, ctor, device, programs, op, img, img0, arg, dev,
          kernel, queue, output, err, allocs, calls, log>>

callVars == <<op, img, img0, arg, dev, kernel, queue, output, allocs, calls, log>>

(* --------------------------- construction ---------------------------- *)
RECURSIVE SeqsUpTo(_, _)
SeqsUpTo(S, n) ==
    IF n = 0 THEN {<<>>}
    ELSE LET shorter == SeqsUpTo(S, n - 1)
         IN shorter \cup {Append(s, x) : s \in {t \in shorter : Len(t) = n - 1}, x \in S}

(* how many devices a platform may have *)
DeviceCounts == {0, 1, 2}

PlatformLists == SeqsUpTo(DeviceCounts, MaxPlatforms)

AllDevices == {<<p, d>> : p \in 1..MaxPlatforms, d \in DeviceCounts \ {0}}

NoImages == [src |-> NoDevImage, dest |-> NoDevImage, output |-> NoDevImage]

Init ==
    /\ pc = "boot"
    /\ platforms \in PlatformLists
    /\ cfg \in SUBSET Feature
    /\ ctor = None
    /\ device = NoDevice
    /\ programs = {}
    /\ op = None
    /\ img = NoImage
    /\ img0 = NoImage
    /\ arg = NoArg
    /\ dev = NoImages
    /\ kernel = NoKernel
    /\ queue = <<>>
    /\ output = NoImage
    /\ err = NoErr
    /\ allocs = 0
    /\ calls = 0
    /\ log = <<>>

(* mutant: the first platform of the list instead of the popped one *)
PopPlatformFirst(list) == IF Len(list) = 0 THEN NoPlatform ELSE 1

(* Vec::pop on the platform list: the last element, None when empty *)
PopPlatform(list) == IF Len(list) = 0 THEN NoPlatform ELSE Len(list)

(* Device::first(platform): the first device, an error when there is none *)
FirstDevice(list, p) == IF list[p] = 0 THEN NoDevice ELSE <<p, 1>>

(* the programs new() inserts: one per enabled cargo feature *)
CompiledPrograms(features) == {f \in Feature : f \in features}

(* Executor::new(device): context, queue, one program per enabled feature;
   every backend call may fail and panics through expect() *)
NewExecutor(d) ==
    \/ /\ pc' = "idle"
       /\ device' = d
       /\ programs' = CompiledPrograms(cfg)
       /\ err' = NoErr
    \/ /\ \E e \in {ErrContext, ErrQueue}
              \cup (IF "Contrast" \in cfg THEN {ErrContrastBuild} ELSE {})
              \cup (IF "Geometric_Trans" \in cfg THEN {ErrGeometricBuild} ELSE {}) :
              err' = e
       /\ pc' = "panicked"
       /\ device' = NoDevice
       /\ programs' = {}

default ==
    /\ pc = "boot"
    /\ ctor' = "default"
    /\ platforms' = <<>>
    /\ LET platform == PopPlatform(platforms)
       IN IF platform = NoPlatform
          THEN /\ pc' = "panicked"
               /\ err' = ErrNoPlatform
               /\ UNCHANGED <<device, programs>>
          ELSE LET d == FirstDevice(platforms, platform)
               IN IF d = NoDevice
                  THEN /\ pc' = "panicked"
                       /\ err' = ErrNoDevice
                       /\ UNCHANGED <<device, programs>>
                  ELSE NewExecutor(d)
    /\ UNCHANGED <<cfg>>
    /\ UNCHANGED callVars

new ==
    /\ pc = "boot"
    /\ ctor' = "new"
    /\ platforms' = <<>>
    /\ \E d \in AllDevices :
          /\ d[1] <= Len(platforms)
          /\ d[2] <= platforms[d[1]]
          /\ NewExecutor(d)
    /\ UNCHANGED <<cfg>>
    /\ UNCHANGED callVars

(* ------------------------- host images and inputs -------------------- *)
PixelVals == {100, 200}
Thresholds == {0, 100, 125, 200, U8Max}
Bounds == {0, 100, U8Max}

ConstantData(n, v) == [i \in 1..n |-> v]

(* GrayImage::from_pixel(width, height, Luma([intensity])) *)
constant_image(width, height, intensity) ==
    [w |-> width, h |-> height, ct |-> "L8", data |-> ConstantData(width * height, intensity)]

(* the image of tests::test_threshold: (0u8..26u8).map(|x| x * 10u8) as 26x1 *)
RampImage == [w |-> 26, h |-> 1, ct |-> "L8", data |-> [i \in 1..26 |-> (i - 1) * 10]]

TestImages ==
    {constant_image(10, 10, 0), constant_image(10, 10, 1), constant_image(10, 10, U8Max),
     constant_image(3, 3, 100), RampImage}

Shapes == {<<ww, 1>> : ww \in 1..MaxW} \cup {<<2, 2>>}

SmallImages ==
    UNION {{[w |-> s[1], h |-> s[2], ct |-> "L8", data |-> d] :
               d \in [1..(s[1] * s[2]) -> PixelVals]} : s \in Shapes}

GrayImages == SmallImages \cup TestImages

(* block_radius: u32, kept as its two 16-bit halves <<high, low>> *)
U32(n) == <<n \div Half, n % Half>>
Radii ==
    {U32(r) : r \in 0..MaxSmallRadius}
        \cup {<<SignHalf - 1, Half - 1>>, <<SignHalf, 0>>, <<Half - 1, Half - 1>>}

IsZeroU32(u) == u[1] = 0 /\ u[2] = 0

(* `x as i32` of a u32: the same 32 bits read in two's complement *)
U32AsI32(u) ==
    IF u[1] < SignHalf THEN u[1] * Half + u[2]
    ELSE (u[1] - Half) * Half + u[2]

(* `x as u32` of a u8: zero extension *)
U8AsU32(v) == v % (U8Max + 1)

(* ------------------------------ alloc_img ---------------------------- *)
SrcFlags == {"MEM_READ_ONLY", "MEM_HOST_WRITE_ONLY", "MEM_COPY_HOST_PTR"}
DestFlags == {"MEM_WRITE_ONLY", "MEM_HOST_READ_ONLY", "MEM_COPY_HOST_PTR"}
DefaultFlags == {"MEM_COPY_HOST_PTR", "MEM_READ_WRITE"}
NoFlags == {}

NoFormat == <<"none", "none">>

(* mutant: the La16 arm copied from La8 with its data type left at 8 bits *)
ChannelFormatCopied(ct) ==
    CASE ct = "L8" -> <<"Intensity", "UnsignedInt8">>
      [] ct = "La8" -> <<"Luminance", "UnsignedInt8">>
      [] ct = "Rgb8" -> <<"Rgb", "UnsignedInt8">>
      [] ct = "Rgba8" -> <<"Rgba", "UnsignedInt8">>
      [] ct = "L16" -> <<"Intensity", "UnsignedInt16">>
      [] ct = "La16" -> <<"Luminance", "UnsignedInt8">>
      [] ct = "Rgb16" -> <<"Rgb", "UnsignedInt16">>
      [] ct = "Rgba16" -> <<"Rgba", "UnsignedInt16">>
      [] ct = "Bgr8" -> NoFormat
      [] ct = "Bgra8" -> <<"Bgra", "UnsignedInt8">>
      [] OTHER -> NoFormat

(* the match on T::COLOR_TYPE: <<channel order, channel data type>>,
   NoFormat for the arms that panic *)
ChannelFormat(ct) ==
    CASE ct = "L8" -> <<"Intensity", "UnsignedInt8">>
      [] ct = "La8" -> <<"Luminance", "UnsignedInt8">>
      [] ct = "Rgb8" -> <<"Rgb", "UnsignedInt8">>
      [] ct = "Rgba8" -> <<"Rgba", "UnsignedInt8">>
      [] ct = "L16" -> <<"Intensity", "UnsignedInt16">>
      [] ct = "La16" -> <<"Luminance", "UnsignedInt16">>
      [] ct = "Rgb16" -> <<"Rgb", "UnsignedInt16">>
      [] ct = "Rgba16" -> <<"Rgba", "UnsignedInt16">>
      [] ct = "Bgr8" -> NoFormat
      [] ct = "Bgra8" -> <<"Bgra", "UnsignedInt8">>
      [] OTHER -> NoFormat

FormatPanic(ct) == IF ct = "Bgr8" THEN ErrBgr ELSE ErrNonExhaustive

(* the match on flags: None gives the default *)
FlagsOrDefault(flags) == IF flags = NoFlags THEN DefaultFlags ELSE flags

(* the image the builder makes: same dimensions, the host slice copied in *)
DeviceImage(image, flags) ==
    LET f == ChannelFormat(image.ct)
    IN [order |-> f[1], dtype |-> f[2], flags |-> FlagsOrDefault(flags),
        w |-> image.w, h |-> image.h, data |-> image.data]

Panic(msg) ==
    /\ pc' = "panicked"
    /\ err' = msg
    /\ dev' = NoImages
    /\ kernel' = NoKernel

(* alloc_img(image, flags) bound to the local `slot`, then on to `next` *)
AllocImg(slot, image, flags, next) ==
    IF ChannelFormat(image.ct) = NoFormat
    THEN Panic(FormatPanic(image.ct)) /\ UNCHANGED allocs
    ELSE \/ /\ dev' = [dev EXCEPT ![slot] = DeviceImage(image, flags)]
            /\ allocs' = allocs + 1
            /\ pc' = next
            /\ UNCHANGED <<err, kernel>>
         \/ Panic(ErrAlloc) /\ UNCHANGED allocs

(* mutant: a lookup that never misses *)
HasProgramAlways(f) == TRUE

(* get_program(f): the registry lookup, which panics on a missing key *)
HasProgram(f) == f \in programs

ctorVars == <<platforms, cfg, ctor, device, programs>>

(* ------------------------ kernels of contrast.cl --------------------- *)
(* threshold: tests::test_threshold_0_image_0 and _255_image_255 fix the tie *)
ThresholdKernel(v, t) == IF v > t THEN U8Max ELSE 0

ThresholdMutKernel(v, t) == IF v > t THEN U8Max ELSE 0

Min(a, b) == IF a < b THEN a ELSE b
Max(a, b) == IF a > b THEN a ELSE b

RECURSIVE SumOver(_, _)
SumOver(f, S) ==
    IF S = {} THEN 0
    ELSE LET x == CHOOSE y \in S : TRUE IN f[x] + SumOver(f, S \ {x})

(* indices (row-major, from 1) of the square of half-width r around pixel i,
   clamped at the borders of a w x h image; r >= 0 *)
Window(w, h, i, r) ==
    LET x == (i - 1) % w
        y == (i - 1) \div w
        x0 == Max(0, x - r)
        x1 == IF r >= w - 1 - x THEN w - 1 ELSE x + r
        y0 == Max(0, y - r)
        y1 == IF r >= h - 1 - y THEN h - 1 ELSE y + r
    IN {yy * w + xx + 1 : xx \in x0..x1, yy \in y0..y1}

(* 255 when the pixel is at least the mean of its window *)
AdaptiveKernel(data, w, h, i, r) ==
    LET win == Window(w, h, i, r)
    IN IF data[i] * Cardinality(win) >= SumOver(data, win) THEN U8Max ELSE 0

(* the means an empty neighbourhood (a radius below 0) may yield *)
UndefinedMeans == {0, U8Max + 1}

StretchKernel(v, lower, upper) ==
    IF v <= lower THEN 0
    ELSE IF v >= upper THEN U8Max
    ELSE ((v - lower) * U8Max) \div (upper - lower)

(* the data a kernel run may leave in the image it writes: the first image
   argument is read, the last one written, one work item per pixel *)
KernelResults(k, images) ==
    LET n == k.gws[1] * k.gws[2]
        in == images[k.images[1]].data
    IN CASE k.name = "threshold" ->
              {[i \in 1..n |-> ThresholdKernel(in[i], k.scalars[1])]}
         [] k.name = "threshold_mut" ->
              {[i \in 1..n |-> ThresholdMutKernel(in[i], k.scalars[1])]}
         [] k.name = "adaptive_threshold" ->
              IF k.scalars[1] >= 0
              THEN {[i \in 1..n |->
                        AdaptiveKernel(in, k.gws[1], k.gws[2], i, k.scalars[1])]}
              ELSE {[i \in 1..n |-> IF in[i] >= m THEN U8Max ELSE 0] :
                        m \in UndefinedMeans}
         [] k.name = "stretch_contrast" ->
              {[i \in 1..n |-> StretchKernel(in[i], k.scalars[1], k.scalars[2])]}

KernelTarget(k) == k.images[Len(k.images)]

(* the device runs the command at the head of the in-order queue *)
DeviceRun ==
    /\ queue /= <<>>
    /\ LET k == Head(queue)
       IN /\ queue' = Tail(queue)
          /\ log' = Append(log, <<"done", k.call>>)
          /\ IF k.call = calls /\ pc = "read"
             THEN \E d \in KernelResults(k, dev) :
                     dev' = [dev EXCEPT ![KernelTarget(k)].data = d]
             ELSE UNCHANGED dev
    /\ UNCHANGED <<pc, op, img, img0, arg, kernel, output, err, allocs, calls>>
    /\ UNCHANGED ctorVars

(* --------------------------- shared call steps ----------------------- *)
StartCall(o, image, a, first) ==
    /\ pc = "idle"
    /\ calls < MaxCalls
    /\ op' = o
    /\ img' = image
    /\ img0' = image
    /\ arg' = a
    /\ calls' = calls + 1
    /\ allocs' = 0
    /\ output' = NoImage
    /\ pc' = first
    /\ UNCHANGED <<dev, kernel, queue, err, log>>
    /\ UNCHANGED ctorVars

(* Kernel::builder() ... .build(): the program lookup, then the build *)
BuildKernel(o, images, scalars) ==
    /\ op = o
    /\ pc = "build"
    /\ IF ~HasProgram("Contrast")
       THEN Panic(ErrFeature)
       ELSE \/ /\ kernel' = [name |-> o, images |-> images, scalars |-> scalars,
                             gws |-> <<img.w, img.h>>, call |-> calls]
               /\ pc' = "enq"
               /\ UNCHANGED <<dev, err>>
            \/ Panic(ErrKernelBuild)
    /\ UNCHANGED <<op, img, img0, arg, queue, output, allocs, calls, log>>
    /\ UNCHANGED ctorVars

(* kernel.enq() *)
EnqKernel(o) ==
    /\ op = o
    /\ pc = "enq"
    /\ \/ /\ queue' = Append(queue, kernel)
          /\ log' = Append(log, <<"enq", calls>>)
          /\ pc' = "read"
          /\ UNCHANGED <<dev, kernel, err>>
       \/ Panic(ErrEnqueue) /\ UNCHANGED <<queue, log>>
    /\ UNCHANGED <<op, img, img0, arg, output, allocs, calls>>
    /\ UNCHANGED ctorVars

(* mutant: a read that does not wait for the queue *)
ReadReadyNonBlocking == TRUE

(* a blocking read returns once the commands queued before it are done *)
ReadReady == queue = <<>>

HostImage(d) == [w |-> d.w, h |-> d.h, ct |-> "L8", data |-> d.data]

AllocStep(o, at, slot, flags, next) ==
    /\ op = o
    /\ pc = at
    /\ AllocImg(slot, img, flags, next)
    /\ UNCHANGED <<op, img, img0, arg, queue, output, calls, log>>
    /\ UNCHANGED ctorVars

(* ImageBuffer::new(dims.0, dims.1); dest.read(&mut output).enq(); output *)
ReadDest(o) ==
    /\ op = o
    /\ pc = "read"
    /\ ReadReady
    /\ \/ /\ output' = HostImage(dev.dest)
          /\ pc' = "returned"
          /\ log' = Append(log, <<"ret", calls>>)
          /\ UNCHANGED <<dev, kernel, err>>
       \/ Panic(ErrRead) /\ UNCHANGED <<output, log>>
    /\ UNCHANGED <<op, img, img0, arg, queue, allocs, calls>>
    /\ UNCHANGED ctorVars

(* ------------------------------ threshold ---------------------------- *)
threshold ==
    \E image \in GrayImages, t \in Thresholds :
        StartCall("threshold", image, [NoArg EXCEPT !.threshold = t], "alloc_src")

threshold_alloc_src == AllocStep("threshold", "alloc_src", "src", SrcFlags, "alloc_dest")

threshold_alloc_dest == AllocStep("threshold", "alloc_dest", "dest", DestFlags, "build")

(* mutant: the two image arguments in the wrong order *)
threshold_build_swapped ==
    BuildKernel("threshold", <<"dest", "src">>, <<U8AsU32(arg.threshold)>>)

threshold_build ==
    BuildKernel("threshold", <<"src", "dest">>, <<U8AsU32(arg.threshold)>>)

threshold_enq == EnqKernel("threshold")

(* mutant: the read-back takes src instead of dest *)
threshold_read_src ==
    /\ op = "threshold"
    /\ pc = "read"
    /\ ReadReady
    /\ \/ /\ output' = HostImage(dev.src)
          /\ pc' = "returned"
          /\ log' = Append(log, <<"ret", calls>>)
          /\ UNCHANGED <<dev, kernel, err>>
       \/ Panic(ErrRead) /\ UNCHANGED <<output, log>>
    /\ UNCHANGED <<op, img, img0, arg, queue, allocs, calls>>
    /\ UNCHANGED ctorVars

threshold_read == ReadDest("threshold")

(* ---------------------------- threshold_mut -------------------------- *)
threshold_mut ==
    \E image \in GrayImages, t \in Thresholds :
        StartCall("threshold_mut", image, [NoArg EXCEPT !.threshold = t], "alloc_output")

threshold_mut_alloc == AllocStep("threshold_mut", "alloc_output", "output", NoFlags, "build")

threshold_mut_build ==
    BuildKernel("threshold_mut", <<"output">>, <<U8AsU32(arg.threshold)>>)

threshold_mut_enq == EnqKernel("threshold_mut")

(* mutant: the read-back lands in a fresh buffer, not in the caller's *)
threshold_mut_read_fresh ==
    /\ op = "threshold_mut"
    /\ pc = "read"
    /\ ReadReady
    /\ \/ /\ output' = HostImage(dev.output)
          /\ pc' = "returned"
          /\ log' = Append(log, <<"ret", calls>>)
          /\ UNCHANGED <<dev, kernel, err, img>>
       \/ Panic(ErrRead) /\ UNCHANGED <<img, output, log>>
    /\ UNCHANGED <<op, img0, arg, queue, allocs, calls>>
    /\ UNCHANGED ctorVars

(* output.read(img).enq(): the read-back lands in the caller's buffer *)
threshold_mut_read ==
    /\ op = "threshold_mut"
    /\ pc = "read"
    /\ ReadReady
    /\ \/ /\ img' = HostImage(dev.output)
          /\ pc' = "returned"
          /\ log' = Append(log, <<"ret", calls>>)
          /\ UNCHANGED <<dev, kernel, err>>
       \/ Panic(ErrRead) /\ UNCHANGED <<img, log>>
    /\ UNCHANGED <<op, img0, arg, queue, output, allocs, calls>>
    /\ UNCHANGED ctorVars

(* -------------------------- adaptive_threshold ----------------------- *)
adaptive_threshold ==
    \E image \in GrayImages, r \in Radii :
        StartCall("adaptive_threshold", image, [NoArg EXCEPT !.radius = r], "assert")

(* mutant: the assertion left out *)
RadiusOkAlways(r) == TRUE

(* assert!(block_radius > 0) *)
RadiusOk(r) == ~IsZeroU32(r)

AssertStep(o, ok) ==
    /\ op = o
    /\ pc = "assert"
    /\ IF ok
       THEN pc' = "alloc_src" /\ UNCHANGED <<err, dev, kernel>>
       ELSE Panic(ErrAssert)
    /\ UNCHANGED <<op, img, img0, arg, queue, output, allocs, calls, log>>
    /\ UNCHANGED ctorVars

adaptive_threshold_assert == AssertStep("adaptive_threshold", RadiusOk(arg.radius))

adaptive_threshold_alloc_src ==
    AllocStep("adaptive_threshold", "alloc_src", "src", SrcFlags, "alloc_dest")

adaptive_threshold_alloc_dest ==
    AllocStep("adaptive_threshold", "alloc_dest", "dest", DestFlags, "build")

adaptive_threshold_build ==
    BuildKernel("adaptive_threshold", <<"src", "dest">>, <<U32AsI32(arg.radius)>>)

adaptive_threshold_enq == EnqKernel("adaptive_threshold")

adaptive_threshold_read == ReadDest("adaptive_threshold")

(* --------------------------- stretch_contrast ------------------------ *)
stretch_contrast ==
    \E image \in GrayImages, lo \in Bounds, up \in Bounds :
        StartCall("stretch_contrast", image, [NoArg EXCEPT !.lower = lo, !.upper = up], "assert")

(* assert!(upper > lower, ...) *)
BoundsOk(lower, upper) == upper > lower

stretch_contrast_assert == AssertStep("stretch_contrast", BoundsOk(arg.lower, arg.upper))

stretch_contrast_alloc_src ==
    AllocStep("stretch_contrast", "alloc_src", "src", SrcFlags, "alloc_dest")

stretch_contrast_alloc_dest ==
    AllocStep("stretch_contrast", "alloc_dest", "dest", DestFlags, "build")

stretch_contrast_build ==
    BuildKernel("stretch_contrast", <<"src", "dest">>,
                <<U8AsU32(arg.lower), U8AsU32(arg.upper)>>)

stretch_contrast_enq == EnqKernel("stretch_contrast")

stretch_contrast_read == ReadDest("stretch_contrast")

(* ----------------------- alloc_img as a public call ------------------ *)
(* a host image of any pixel type: one pixel, all subpixels 0 *)
HostImageOf(ct) == [w |-> 1, h |-> 1, ct |-> ct, data |-> <<0>>]

alloc_img ==
    /\ pc = "idle"
    /\ \E ct \in ColorType, flags \in {NoFlags, SrcFlags, DestFlags} :
          /\ img' = HostImageOf(ct)
          /\ img0' = HostImageOf(ct)
          /\ AllocImg("output", HostImageOf(ct), flags, "returned")
    /\ op' = "alloc_img"
    /\ arg' = NoArg
    /\ output' = NoImage
    /\ UNCHANGED <<queue, calls, log>>
    /\ UNCHANGED ctorVars

(* the caller is done with the result; the locals of the call are dropped *)
drop ==
    /\ pc = "returned"
    /\ pc' = "idle"
    /\ op' = None
    /\ img' = NoImage
    /\ img0' = NoImage
    /\ arg' = NoArg
    /\ dev' = NoImages
    /\ kernel' = NoKernel
    /\ output' = NoImage
    /\ allocs' = 0
    /\ UNCHANGED <<queue, err, calls, log>>
    /\ UNCHANGED ctorVars

Next ==
    \/ default
    \/ new
    \/ threshold
    \/ threshold_alloc_src
    \/ threshold_alloc_dest
    \/ threshold_build
    \/ threshold_enq
    \/ threshold_read
    \/ threshold_mut
    \/ threshold_mut_alloc
    \/ threshold_mut_build
    \/ threshold_mut_enq
    \/ threshold_mut_read
    \/ adaptive_threshold
    \/ adaptive_threshold_assert
    \/ adaptive_threshold_alloc_src
    \/ adaptive_threshold_alloc_dest
    \/ adaptive_threshold_build
    \/ adaptive_threshold_enq
    \/ adaptive_threshold_read
    \/ stretch_contrast
    \/ stretch_contrast_assert
    \/ stretch_contrast_alloc_src
    \/ stretch_contrast_alloc_dest
    \/ stretch_contrast_build
    \/ stretch_contrast_enq
    \/ stretch_contrast_read
    \/ alloc_img
    \/ DeviceRun
    \/ drop

Spec == Init /\ [][Next]_vars

(* ============================== claims =============================== *)
KernelOps == {"threshold", "threshold_mut", "adaptive_threshold", "stretch_contrast"}

Returned(o) == pc = "returned" /\ op = o

SameDims(a, b) == a.w = b.w /\ a.h = b.h /\ Len(a.data) = Len(b.data)

(* C1 as stated: threshold returns an image of the input's dimensions whose
   pixel is 255 iff the input pixel is >= t, and 0 otherwise *)
C1_AsStated ==
    Returned("threshold") =>
        /\ SameDims(output, img0)
        /\ \A i \in 1..Len(img0.data) :
              output.data[i] = IF img0.data[i] >= arg.threshold THEN 255 ELSE 0

(* C1 amended: threshold returns an image of the input's dimensions whose
   pixel is 255 iff the input pixel is strictly greater than t, and 0 otherwise *)
C1_ThresholdStrict ==
    Returned("threshold") =>
        /\ SameDims(output, img0)
        /\ \A i \in 1..Len(img0.data) :
              /\ output.data[i] \in {0, 255}
              /\ output.data[i] = 255 <=> img0.data[i] > arg.threshold

C1_Witness ==
    /\ Returned("threshold")
    /\ \E i \in 1..Len(img0.data) : img0.data[i] = arg.threshold
    /\ \E i \in 1..Len(img0.data) : img0.data[i] > arg.threshold

(* C2: in threshold a pixel equal to t becomes 0 and only a strictly brighter
   one becomes 255; constant 0 at t = 0 and constant 255 at t = 255 give all 0,
   constant 1 at t = 0 gives all 255, the ramp 0,10,..,250 at t = 125 gives
   13 zeros then 13 times 255 *)
C2_TieIsBackground ==
    Returned("threshold") =>
        /\ \A i \in 1..Len(img0.data) :
              /\ img0.data[i] = arg.threshold => output.data[i] = 0
              /\ img0.data[i] > arg.threshold => output.data[i] = 255
        /\ (img0 = constant_image(10, 10, 0) /\ arg.threshold = 0)
              => output = constant_image(10, 10, 0)
        /\ (img0 = constant_image(10, 10, 255) /\ arg.threshold = 255)
              => output = constant_image(10, 10, 0)
        /\ (img0 = constant_image(10, 10, 1) /\ arg.threshold = 0)
              => output = constant_image(10, 10, 255)
        /\ (img0 = RampImage /\ arg.threshold = 125)
              => output.data = [i \in 1..26 |-> IF i <= 13 THEN 0 ELSE 255]

C2_Witness == Returned("threshold") /\ img0 = RampImage /\ arg.threshold = 125

(* what threshold(image, t) returns, pixel by pixel *)
ThresholdOf(image, t) ==
    [w |-> image.w, h |-> image.h, ct |-> "L8",
     data |-> [i \in 1..Len(image.data) |-> IF image.data[i] > t THEN 255 ELSE 0]]

(* C3: after threshold_mut the caller's buffer equals what threshold returns
   for the same start image and t; threshold leaves its input unchanged;
   threshold_mut works through one read-write device image *)
C3_MutEqualsThreshold ==
    /\ Returned("threshold") =>
          /\ output = ThresholdOf(img0, arg.threshold)
          /\ img = img0
          /\ allocs = 2
    /\ Returned("threshold_mut") =>
          /\ img = ThresholdOf(img0, arg.threshold)
          /\ allocs = 1
          /\ "MEM_READ_WRITE" \in dev.output.flags
          /\ dev.src = NoDevImage /\ dev.dest = NoDevImage
          /\ output = NoImage

C3_Witness ==
    /\ Returned("threshold_mut")
    /\ img /= img0
    /\ \E i \in 1..Len(img0.data) : img0.data[i] = arg.threshold

EnqueuedBy(c) == \E i \in 1..Len(log) : log[i] = <<"enq", c>>

(* C4: a parameter precondition violation (block_radius = 0, upper <= lower)
   is an assertion failure before any device image, kernel or output exists;
   with valid parameters the assertion does not fail *)
C4_AssertFirst ==
    /\ err = ErrAssert =>
          /\ op \in {"adaptive_threshold", "stretch_contrast"}
          /\ allocs = 0
          /\ dev = NoImages
          /\ kernel = NoKernel
          /\ output = NoImage
          /\ ~EnqueuedBy(calls)
    /\ (op = "adaptive_threshold" /\ pc /= "assert") =>
          (err = ErrAssert <=> arg.radius = <<0, 0>>)
    /\ (op = "stretch_contrast" /\ pc /= "assert") =>
          (err = ErrAssert <=> arg.upper <= arg.lower)

C4_Witness ==
    /\ op = "adaptive_threshold"
    /\ err = ErrAssert
    /\ arg.radius = <<0, 0>>

IsConstant(image) == \A i \in 1..Len(image.data) : image.data[i] = image.data[1]

ChannelCount(ct) ==
    CASE ct \in {"L8", "L16"} -> 1
      [] ct \in {"La8", "La16"} -> 2
      [] ct \in {"Rgb8", "Rgb16", "Bgr8"} -> 3
      [] ct \in {"Rgba8", "Rgba16", "Bgra8"} -> 4
      [] OTHER -> 0

BitDepth(ct) ==
    CASE ct \in {"L8", "La8", "Rgb8", "Rgba8", "Bgr8", "Bgra8"} -> 8
      [] ct \in {"L16", "La16", "Rgb16", "Rgba16"} -> 16
      [] OTHER -> 0

OrderByCount(n) ==
    CASE n = 1 -> "Intensity" [] n = 2 -> "Luminance" [] n = 3 -> "Rgb" [] n = 4 -> "Rgba"

TypeByDepth(b) == IF b = 8 THEN "UnsignedInt8" ELSE "UnsignedInt16"

FormatErrors == {ErrBgr, ErrNonExhaustive}

FormatDecided == op = "alloc_img" /\ (pc = "returned" \/ err \in FormatErrors)

(* C6 as stated: the device format is decided by channel count and bit depth
   alone: 1, 2, 3, 4 channels give intensity, luminance, RGB, RGBA *)
C6_AsStated ==
    (FormatDecided /\ ChannelCount(img0.ct) > 0) =>
        /\ pc = "returned"
        /\ dev.output.order = OrderByCount(ChannelCount(img0.ct))
        /\ dev.output.dtype = TypeByDepth(BitDepth(img0.ct))

(* C6 amended: the device format is decided by the colour type: L, La, Rgb,
   Rgba at 8 or 16 bits give intensity, luminance, RGB, RGBA with uint8 or
   uint16; Bgra8 gives BGRA uint8; Bgr8 and unknown types fail as unsupported *)
C6_ByColorType ==
    FormatDecided =>
        IF img0.ct \in {"Bgr8", "__NonExhaustive"}
        THEN /\ pc = "panicked"
             /\ err = (IF img0.ct = "Bgr8" THEN ErrBgr ELSE ErrNonExhaustive)
             /\ allocs = 0
        ELSE /\ pc = "returned"
             /\ dev.output.order =
                   (IF img0.ct = "Bgra8" THEN "Bgra" ELSE OrderByCount(ChannelCount(img0.ct)))
             /\ dev.output.dtype = TypeByDepth(BitDepth(img0.ct))
             /\ dev.output.w = img0.w /\ dev.output.h = img0.h

C6_Witness == FormatDecided /\ pc = "returned" /\ img0.ct = "La16"

(* C7 as stated: 'feature not enabled' is raised only while the Executor is
   constructed, never by a call, and never after a device image was allocated *)
C7_AsStated == err = ErrFeature => (op = None /\ allocs = 0)

(* C7 amended: construction succeeds without the Contrast program; a call
   whose parameters pass its assertion then fails with 'feature not enabled'
   when it builds its kernel, after allocating its device images and before
   enqueueing anything *)
C7_FailsAtBuild ==
    /\ err = ErrFeature =>
          /\ op \in KernelOps
          /\ device /= NoDevice
          /\ "Contrast" \notin programs
          /\ allocs = (IF op = "threshold_mut" THEN 1 ELSE 2)
          /\ ~EnqueuedBy(calls)
    /\ (op \in KernelOps /\ "Contrast" \notin programs) =>
          /\ pc \notin {"enq", "read", "returned"}
          /\ kernel = NoKernel

C7_Witness == err = ErrFeature /\ op = "threshold" /\ allocs = 2 /\ ctor = "default"

(* C8 as stated: default construction takes the first platform of the list
   and its first device, and fails only when the list is empty or that
   platform has no device *)
C8_AsStated ==
    [][(pc = "boot" /\ ctor' = "default") =>
          IF platforms = <<>> THEN pc' = "panicked"
          ELSE IF platforms[1] = 0 THEN pc' = "panicked"
          ELSE pc' = "idle" => device' = <<1, 1>>]_vars

(* C8 amended: default construction takes the last platform of the list and
   the first device of that platform; with an empty list, or no device on
   that platform, construction fails *)
C8_LastPlatform ==
    [][(pc = "boot" /\ ctor' = "default") =>
          IF platforms = <<>> THEN pc' = "panicked" /\ err' = ErrNoPlatform
          ELSE IF platforms[Len(platforms)] = 0
               THEN pc' = "panicked" /\ err' = ErrNoDevice
               ELSE /\ err' \notin {ErrNoPlatform, ErrNoDevice}
                    /\ pc' = "idle" => device' = <<Len(platforms), 1>>]_vars

C8_Witness == ctor = "default" /\ pc = "idle" /\ device = <<2, 1>>

Rank(kind) == CASE kind = "enq" -> 1 [] kind = "done" -> 2 [] kind = "ret" -> 3

(* C9: kernels run in the order of the calls; a call allocates, builds,
   enqueues and reads back in that order and returns only after its own
   kernel completed, so a kernel is enqueued only after the earlier ones
   completed *)
C9_InOrder ==
    /\ \A i, j \in 1..Len(log) :
          i < j =>
             /\ log[i][2] <= log[j][2]
             /\ log[i][2] = log[j][2] => Rank(log[i][1]) < Rank(log[j][1])
    /\ Len(queue) <= 1
    /\ queue /= <<>> => (pc = "read" /\ Head(queue).call = calls)
    /\ (op \in KernelOps /\ pc = "build") => (allocs >= 1 /\ kernel = NoKernel)
    /\ (op \in KernelOps /\ pc = "enq") =>
          (allocs >= 1 /\ kernel.name = op /\ ~EnqueuedBy(calls))
    /\ (op \in KernelOps /\ pc = "read") => EnqueuedBy(calls)
    /\ (op \in KernelOps /\ pc = "returned") =>
          /\ \E i \in 1..Len(log) : log[i] = <<"done", calls>>
          /\ log[Len(log)] = <<"ret", calls>>

C9_Witness == calls = 2 /\ pc = "returned" /\ op \in KernelOps /\ Len(log) = 6

(* C10: every block_radius accepted by the assertion reaches the kernel as
   the same positive number *)
C10_RadiusPreserved ==
    kernel.name = "adaptive_threshold" =>
        /\ kernel.scalars[1] > 0
        /\ U32(kernel.scalars[1]) = arg.radius
====
